---------------------------- MODULE Spec2Model ----------------------------
(***************************************************************************)
(* Model of ASceneCaptureCamera                                            *)
(* (Unreal/CarlaUE4/Plugins/Carla/Source/Carla/Sensor/                     *)
(* SceneCaptureCamera.cpp): a camera actor that is configured through      *)
(* Set / SetImageSize / SetPostProcessEffect / SetFOVAngle, initialises    *)
(* its render target in BeginPlay and, on every Tick, reads the render     *)
(* target back and hands header + pixels to WriteSensorData.               *)
(*                                                                         *)
(* Names used by the specification of the repository:                      *)
(*   apply / configure = Set            onSessionStart   = BeginPlay       *)
(*   onTick            = Tick           publish          = WriteSensorData *)
(*   getFieldOfView    = GetFOVAngle    setFieldOfView   = SetFOVAngle     *)
(***************************************************************************)
EXTENDS Integers, Sequences, FiniteSets, TLC

\* ------------------------------------------------------------------ bounds
\* Largest image width offered to SetImageSize / Set (uint32 in the code; the
\* code does no arithmetic on sizes, so no wrap-around can occur).
MaxSize == 2
\* Number of Tick calls explored in one session.
MaxTicks == 2

\* ------------------------------------------------------- program constants
\* SizeX(720u), SizeY(512u) of the constructor's initialiser list.
DefaultSizeX == 720
DefaultSizeY == 512
\* FOVAngle of a freshly created USceneCaptureComponent2D (engine default).
DefaultFOVAngle == 90
\* GNearClippingPlane, the engine global UpdateDrawFrustum reads.
GNearClippingPlane == 10
\* "1000 is the default frustum distance" of UpdateDrawFrustum.
DefaultFrustumEndDist == 1000

\* --------------------------------------------------------------- input sets
\* Widths and heights offered: zero, and a positive width that differs from
\* the positive height.
Widths == {0, MaxSize}
Heights == {0, MaxSize + 1}
\* Field of view in degrees offered; 180 is outside the open range (0,180).
FOVAngles == {60, 180}
\* Target gamma values offered to SetTargetGamma.
Gammas == {2}
\* EPostProcessEffect
Effects == {"SceneFinal", "Depth", "SemanticSegmentation", "None"}

\* FPostProcessSettings auto-exposure values of a default-constructed
\* settings object, and the parameter records a camera description may carry
\* in CameraPostProcessParameters (every field differs from the default).
DefaultExposure ==
  [AutoExposureMethod |-> "AEM_Histogram", AutoExposureMinBrightness |-> 0,
   AutoExposureMaxBrightness |-> 2, AutoExposureBias |-> 0]
OverrideParameters ==
  { [AutoExposureMethod |-> "AEM_Basic", AutoExposureMinBrightness |-> 1,
     AutoExposureMaxBrightness |-> 3, AutoExposureBias |-> 1] }

\* UCameraDescription values handed to Set.  CameraPostProcessParameters is
\* read only when bOverrideCameraPostProcessParameters is set, so a single
\* value is enumerated for it otherwise.
CameraDescriptions ==
  { [ImageSizeX |-> x, ImageSizeY |-> y, PostProcessEffect |-> e,
     FOVAngle |-> f, bOverrideCameraPostProcessParameters |-> TRUE,
     CameraPostProcessParameters |-> p] :
      x \in Widths, y \in Heights, e \in Effects, f \in FOVAngles,
      p \in OverrideParameters }
  \cup
  { [ImageSizeX |-> x, ImageSizeY |-> y, PostProcessEffect |-> e,
     FOVAngle |-> f, bOverrideCameraPostProcessParameters |-> FALSE,
     CameraPostProcessParameters |-> DefaultExposure] :
      x \in Widths, y \in Heights, e \in Effects, f \in FOVAngles }

\* What the rendering backend does with one read-back request:
\*   "missing" GameThread_GetRenderTargetResource() returns nullptr
\*   "failed"  RTResource->ReadPixels returns false
\*   "ok"      RTResource->ReadPixels returns true and fills BitMap
Backends == {"missing", "failed", "ok"}

\* The show flags RemoveShowFlags switches off (the lines of the function
\* that are not commented out).
RemovedShowFlags ==
  {"AmbientOcclusion", "AntiAliasing", "AtmosphericFog", "Bloom",
   "CameraImperfections", "CameraInterpolation", "ColorGrading",
   "DepthOfField", "Diffuse", "DirectionalLights", "DirectLighting",
   "DynamicShadows", "EyeAdaptation", "Fog", "GlobalIllumination", "Grain",
   "HLODColoration", "HMDDistortion", "LensFlares", "LevelColoration",
   "LightComplexity", "LightFunctions", "LightInfluences", "Lighting",
   "LightMapDensity", "LightRadius", "LightShafts", "LODColoration",
   "MotionBlur", "OnScreenDebug", "Particles", "PointLights",
   "PropertyColoration", "Refraction", "SceneColorFringe", "ScreenSpaceAO",
   "ScreenSpaceReflections", "SkyLighting", "SpotLights",
   "StationaryLightOverlap", "SubsurfaceScattering", "Tonemapper",
   "VisualizeAdaptiveDOF", "VisualizeBloom", "VisualizeBuffer",
   "VisualizeDistanceFieldAO", "VisualizeDistanceFieldGI", "VisualizeDOF",
   "VisualizeHDR", "VisualizeLightCulling", "VisualizeLPV",
   "VisualizeMeshDistanceFields", "VisualizeMotionBlur",
   "VisualizeOutOfBoundsPixels", "VisualizeSenses",
   "VisualizeShadingModels", "VisualizeSSR", "VisualizeSSS"}

\* -------------------------------------------------------------------- state
VARIABLES
  cam,        \* the actor's members and those of its sub-objects
  lifecycle,  \* "constructed" until PostActorCreated has run, "created"
              \* until BeginPlay has run, then "playing"; "aborted" after a
              \* failed check()
  ticks,      \* Tick calls so far
  readBacks,  \* ReadPixels calls so far
  okReadBacks,\* ReadPixels calls that returned true
  publishes,  \* WriteSensorData calls so far
  result,     \* what the last call returned: Tick's outcome, GetFOVAngle's value
  written,    \* the data view the last call handed to WriteSensorData
  scenario,   \* progress of the sequence Set(d), BeginPlay, published Tick
  change      \* progress of the sequence BeginPlay, configuration calls,
              \* published Tick, with the variant and field of view BeginPlay saw

vars == <<cam, lifecycle, ticks, readBacks, okReadBacks, publishes, result,
          written, scenario, change>>

NoData == [sent |-> FALSE, Header |-> <<>>, BitMapNum |-> 0]
NoScenario == [stage |-> 0, ImageSizeX |-> 0, ImageSizeY |-> 0]
NoChange == [stage |-> 0, FOVAngle |-> 0, PostProcessEffect |-> "SceneFinal"]
Result(outcome, value) == [outcome |-> outcome, value |-> value]
Void == Result("void", 0)
CheckFailed == Result("check failed", 0)

\* ------------------------------------------------------------ pure helpers
\* static void RemoveShowFlags(FEngineShowFlags &): the set of show flags
\* that are off afterwards.
RemoveShowFlags(ShowFlags) == ShowFlags \cup RemovedShowFlags

\* PostProcessEffect::ToUInt: the numeric code of a variant, as documented
\* for the wire header.
ToUInt(e) ==
  CASE e = "SceneFinal" -> 0
    [] e = "Depth" -> 1
    [] e = "SemanticSegmentation" -> 2
    [] e = "None" -> 3

\* The four bOverride_AutoExposure* flags of a settings object.
OverrideFlags(pps) ==
  <<pps.bOverride_AutoExposureMethod, pps.bOverride_AutoExposureMinBrightness,
    pps.bOverride_AutoExposureMaxBrightness, pps.bOverride_AutoExposureBias>>
NoOverrideFlags == <<FALSE, FALSE, FALSE, FALSE>>
AllOverrideFlags == <<TRUE, TRUE, TRUE, TRUE>>
\* The four AutoExposure* values of a settings object.
ExposureValues(pps) ==
  [AutoExposureMethod |-> pps.AutoExposureMethod,
   AutoExposureMinBrightness |-> pps.AutoExposureMinBrightness,
   AutoExposureMaxBrightness |-> pps.AutoExposureMaxBrightness,
   AutoExposureBias |-> pps.AutoExposureBias]

\* ------------------------------------------------------------ construction
\* ASceneCaptureCamera::ASceneCaptureCamera: the members after construction.
\* CaptureRenderTarget and CaptureComponent2D are created here, so both
\* pointers are non-null from the start, and so is DrawFrustum.  The values
\* the code does not set are those of freshly created engine objects.
Constructed ==
  [SizeX |-> DefaultSizeX,
   SizeY |-> DefaultSizeY,
   PostProcessEffect |-> "SceneFinal",
   CaptureRenderTarget |->
     [NotNull |-> TRUE, Initialized |-> FALSE, SizeX |-> 0, SizeY |-> 0,
      Format |-> "PF_Unknown", bForceLinearGamma |-> FALSE,
      TargetGamma |-> 0],
   DrawFrustum |->
     [NotNull |-> TRUE, FrustumStartDist |-> 100, FrustumEndDist |-> 1000,
      FrustumAngle |-> 90],
   CaptureComponent2D |->
     [NotNull |-> TRUE, FOVAngle |-> DefaultFOVAngle, Active |-> FALSE,
      MaxViewDistanceOverride |-> -1,
      TextureTarget |-> FALSE, CaptureSource |-> "SCS_SceneColorHDR",
      ShowFlags |-> {}, Blendables |-> <<>>,
      PostProcessSettings |->
        [bOverride_AutoExposureMethod |-> FALSE,
         bOverride_AutoExposureMinBrightness |-> FALSE,
         bOverride_AutoExposureMaxBrightness |-> FALSE,
         bOverride_AutoExposureBias |-> FALSE,
         AutoExposureMethod |-> DefaultExposure.AutoExposureMethod,
         AutoExposureMinBrightness |-> DefaultExposure.AutoExposureMinBrightness,
         AutoExposureMaxBrightness |-> DefaultExposure.AutoExposureMaxBrightness,
         AutoExposureBias |-> DefaultExposure.AutoExposureBias]]]

Init ==
  /\ cam = Constructed
  /\ lifecycle = "constructed"
  /\ ticks = 0
  /\ readBacks = 0
  /\ okReadBacks = 0
  /\ publishes = 0
  /\ result = Void
  /\ written = NoData
  /\ scenario = NoScenario
  /\ change = NoChange

\* ------------------------------------------------- the methods, as functions
\* Each method maps the members before the call to the members after it.

\* SetImageSize with the two assignments crossed.
SetImageSize_Crossed(s, otherSizeX, otherSizeY) ==
  [s EXCEPT !.SizeX = otherSizeY, !.SizeY = otherSizeX]

\* SetImageSize that also resizes the render target.
SetImageSize_ResizesTarget(s, otherSizeX, otherSizeY) ==
  [s EXCEPT !.SizeX = otherSizeX, !.SizeY = otherSizeY,
            !.CaptureRenderTarget.SizeX = otherSizeX,
            !.CaptureRenderTarget.SizeY = otherSizeY]

\* ASceneCaptureCamera::SetImageSize
SetImageSize(s, otherSizeX, otherSizeY) ==
  [s EXCEPT !.SizeX = otherSizeX, !.SizeY = otherSizeY]

\* SetPostProcessEffect that forgets the last of the four flags.
SetPostProcessEffect_KeepsBiasFlag(s, otherPostProcessEffect) ==
  LET t == [s EXCEPT !.PostProcessEffect = otherPostProcessEffect] IN
  IF t.PostProcessEffect # "SceneFinal"
    THEN [t EXCEPT
            !.CaptureComponent2D.PostProcessSettings.bOverride_AutoExposureMethod = FALSE,
            !.CaptureComponent2D.PostProcessSettings.bOverride_AutoExposureMinBrightness = FALSE,
            !.CaptureComponent2D.PostProcessSettings.bOverride_AutoExposureMaxBrightness = FALSE]
    ELSE t

\* SetPostProcessEffect that tests the variant it replaces, not the one it
\* stores, when it decides whether to clear the override flags.
SetPostProcessEffect_TestsOldEffect(s, otherPostProcessEffect) ==
  LET t == [s EXCEPT !.PostProcessEffect = otherPostProcessEffect] IN
  IF s.PostProcessEffect # "SceneFinal"
    THEN [t EXCEPT
            !.CaptureComponent2D.PostProcessSettings.bOverride_AutoExposureMethod = FALSE,
            !.CaptureComponent2D.PostProcessSettings.bOverride_AutoExposureMinBrightness = FALSE,
            !.CaptureComponent2D.PostProcessSettings.bOverride_AutoExposureMaxBrightness = FALSE,
            !.CaptureComponent2D.PostProcessSettings.bOverride_AutoExposureBias = FALSE]
    ELSE t

\* ASceneCaptureCamera::SetPostProcessEffect
SetPostProcessEffect(s, otherPostProcessEffect) ==
  LET t == [s EXCEPT !.PostProcessEffect = otherPostProcessEffect] IN
  IF t.PostProcessEffect # "SceneFinal"
    THEN [t EXCEPT
            !.CaptureComponent2D.PostProcessSettings.bOverride_AutoExposureMethod = FALSE,
            !.CaptureComponent2D.PostProcessSettings.bOverride_AutoExposureMinBrightness = FALSE,
            !.CaptureComponent2D.PostProcessSettings.bOverride_AutoExposureMaxBrightness = FALSE,
            !.CaptureComponent2D.PostProcessSettings.bOverride_AutoExposureBias = FALSE]
    ELSE t

\* A check that demands a started session (an activated capture component)
\* instead of a non-null pointer.
CheckCaptureComponent2D_Started(s) ==
  s.CaptureComponent2D.NotNull /\ s.CaptureComponent2D.Active

\* check(CaptureComponent2D != nullptr) of GetFOVAngle and SetFOVAngle
CheckCaptureComponent2D(s) == s.CaptureComponent2D.NotNull

\* ASceneCaptureCamera::SetFOVAngle, past its check()
SetFOVAngle(s, FOVAngle) ==
  [s EXCEPT !.CaptureComponent2D.FOVAngle = FOVAngle]

\* ASceneCaptureCamera::GetFOVAngle, past its check()
GetFOVAngle(s) == s.CaptureComponent2D.FOVAngle

\* check(CaptureRenderTarget != nullptr) of SetTargetGamma
CheckCaptureRenderTarget(s) == s.CaptureRenderTarget.NotNull

\* ASceneCaptureCamera::SetTargetGamma, past its check()
SetTargetGamma(s, TargetGamma) ==
  [s EXCEPT !.CaptureRenderTarget.TargetGamma = TargetGamma]

\* ASceneCaptureCamera::UpdateDrawFrustum
UpdateDrawFrustum(s) ==
  IF s.DrawFrustum.NotNull /\ s.CaptureComponent2D.NotNull
    THEN [s EXCEPT
            !.DrawFrustum.FrustumStartDist = GNearClippingPlane,
            !.DrawFrustum.FrustumEndDist =
               IF s.CaptureComponent2D.MaxViewDistanceOverride > GNearClippingPlane
                 THEN s.CaptureComponent2D.MaxViewDistanceOverride
                 ELSE DefaultFrustumEndDist,
            !.DrawFrustum.FrustumAngle = s.CaptureComponent2D.FOVAngle]
    ELSE s

\* ASceneCaptureCamera::PostActorCreated (the editor mesh it may load is not
\* part of the state modelled here)
PostActorCreated(s) == UpdateDrawFrustum(s)

\* An override block that copies the four values but leaves the flag of the
\* exposure method as it is.
SetOverride_WithoutMethodFlag(s, CameraDescription) ==
  IF CameraDescription.bOverrideCameraPostProcessParameters
    THEN LET Override == CameraDescription.CameraPostProcessParameters
             pps == s.CaptureComponent2D.PostProcessSettings IN
         [s EXCEPT
            !.CaptureComponent2D.PostProcessSettings =
               [bOverride_AutoExposureMethod |-> pps.bOverride_AutoExposureMethod,
                AutoExposureMethod |-> Override.AutoExposureMethod,
                bOverride_AutoExposureMinBrightness |-> TRUE,
                AutoExposureMinBrightness |-> Override.AutoExposureMinBrightness,
                bOverride_AutoExposureMaxBrightness |-> TRUE,
                AutoExposureMaxBrightness |-> Override.AutoExposureMaxBrightness,
                bOverride_AutoExposureBias |-> TRUE,
                AutoExposureBias |-> Override.AutoExposureBias]]
    ELSE s

\* The if-block of ASceneCaptureCamera::Set that copies the auto-exposure
\* parameters of the description.
SetOverride(s, CameraDescription) ==
  IF CameraDescription.bOverrideCameraPostProcessParameters
    THEN LET Override == CameraDescription.CameraPostProcessParameters IN
         [s EXCEPT
            !.CaptureComponent2D.PostProcessSettings =
               [bOverride_AutoExposureMethod |-> TRUE,
                AutoExposureMethod |-> Override.AutoExposureMethod,
                bOverride_AutoExposureMinBrightness |-> TRUE,
                AutoExposureMinBrightness |-> Override.AutoExposureMinBrightness,
                bOverride_AutoExposureMaxBrightness |-> TRUE,
                AutoExposureMaxBrightness |-> Override.AutoExposureMaxBrightness,
                bOverride_AutoExposureBias |-> TRUE,
                AutoExposureBias |-> Override.AutoExposureBias]]
    ELSE s

\* Set that runs its override block last, after the three setters.
Set_OverrideLast(s, CameraDescription) ==
  SetOverride(
    SetFOVAngle(
      SetPostProcessEffect(
        SetImageSize(s, CameraDescription.ImageSizeX,
                     CameraDescription.ImageSizeY),
        CameraDescription.PostProcessEffect),
      CameraDescription.FOVAngle),
    CameraDescription)

\* ASceneCaptureCamera::Set
Set(s, CameraDescription) ==
  SetFOVAngle(
    SetPostProcessEffect(
      SetImageSize(SetOverride(s, CameraDescription),
                   CameraDescription.ImageSizeX, CameraDescription.ImageSizeY),
      CameraDescription.PostProcessEffect),
    CameraDescription.FOVAngle)

\* BeginPlay that treats None like SceneFinal when it decides whether to
\* remove post-processing.
BeginPlay_KeepsPostProcessingForNone(s) ==
  LET bRemovePostProcessing == (s.PostProcessEffect \notin {"SceneFinal", "None"})
      bInForceLinearGamma == bRemovePostProcessing
      cc == s.CaptureComponent2D
  IN [s EXCEPT
        !.CaptureRenderTarget =
           [NotNull |-> TRUE, Initialized |-> TRUE,
            SizeX |-> s.SizeX, SizeY |-> s.SizeY,
            Format |-> "PF_B8G8R8A8",
            bForceLinearGamma |-> bInForceLinearGamma,
            TargetGamma |-> s.CaptureRenderTarget.TargetGamma],
        !.CaptureComponent2D =
           [cc EXCEPT
              !.TextureTarget = TRUE,
              !.CaptureSource =
                 IF s.PostProcessEffect # "None"
                   THEN "SCS_FinalColorLDR" ELSE cc.CaptureSource,
              !.ShowFlags =
                 IF bRemovePostProcessing
                   THEN RemoveShowFlags(cc.ShowFlags) ELSE cc.ShowFlags,
              !.Blendables =
                 IF s.PostProcessEffect = "Depth"
                   THEN Append(cc.Blendables,
                          [Object |-> "PostProcessDepth", Weight |-> 1])
                 ELSE IF s.PostProcessEffect = "SemanticSegmentation"
                   THEN Append(cc.Blendables,
                          [Object |-> "PostProcessSemanticSegmentation",
                           Weight |-> 1])
                 ELSE cc.Blendables,
              !.Active = TRUE]]

\* BeginPlay that never forces the render target to linear gamma.
BeginPlay_NeverLinearGamma(s) ==
  LET bRemovePostProcessing == (s.PostProcessEffect # "SceneFinal")
      bInForceLinearGamma == FALSE
      cc == s.CaptureComponent2D
  IN [s EXCEPT
        !.CaptureRenderTarget =
           [NotNull |-> TRUE, Initialized |-> TRUE,
            SizeX |-> s.SizeX, SizeY |-> s.SizeY,
            Format |-> "PF_B8G8R8A8",
            bForceLinearGamma |-> bInForceLinearGamma,
            TargetGamma |-> s.CaptureRenderTarget.TargetGamma],
        !.CaptureComponent2D =
           [cc EXCEPT
              !.TextureTarget = TRUE,
              !.CaptureSource =
                 IF s.PostProcessEffect # "None"
                   THEN "SCS_FinalColorLDR" ELSE cc.CaptureSource,
              !.ShowFlags =
                 IF bRemovePostProcessing
                   THEN RemoveShowFlags(cc.ShowFlags) ELSE cc.ShowFlags,
              !.Blendables =
                 IF s.PostProcessEffect = "Depth"
                   THEN Append(cc.Blendables,
                          [Object |-> "PostProcessDepth", Weight |-> 1])
                 ELSE IF s.PostProcessEffect = "SemanticSegmentation"
                   THEN Append(cc.Blendables,
                          [Object |-> "PostProcessSemanticSegmentation",
                           Weight |-> 1])
                 ELSE cc.Blendables,
              !.Active = TRUE]]

\* BeginPlay that blends the depth material for SemanticSegmentation too.
BeginPlay_BlendsDepthForSegmentation(s) ==
  LET bRemovePostProcessing == (s.PostProcessEffect # "SceneFinal")
      bInForceLinearGamma == bRemovePostProcessing
      cc == s.CaptureComponent2D
  IN [s EXCEPT
        !.CaptureRenderTarget =
           [NotNull |-> TRUE, Initialized |-> TRUE,
            SizeX |-> s.SizeX, SizeY |-> s.SizeY,
            Format |-> "PF_B8G8R8A8",
            bForceLinearGamma |-> bInForceLinearGamma,
            TargetGamma |-> s.CaptureRenderTarget.TargetGamma],
        !.CaptureComponent2D =
           [cc EXCEPT
              !.TextureTarget = TRUE,
              !.CaptureSource =
                 IF s.PostProcessEffect # "None"
                   THEN "SCS_FinalColorLDR" ELSE cc.CaptureSource,
              !.ShowFlags =
                 IF bRemovePostProcessing
                   THEN RemoveShowFlags(cc.ShowFlags) ELSE cc.ShowFlags,
              !.Blendables =
                 IF s.PostProcessEffect = "Depth"
                   THEN Append(cc.Blendables,
                          [Object |-> "PostProcessDepth", Weight |-> 1])
                 ELSE IF s.PostProcessEffect = "SemanticSegmentation"
                   THEN Append(cc.Blendables,
                          [Object |-> "PostProcessDepth", Weight |-> 1])
                 ELSE cc.Blendables,
              !.Active = TRUE]]

\* ASceneCaptureCamera::BeginPlay
BeginPlay(s) ==
  LET bRemovePostProcessing == (s.PostProcessEffect # "SceneFinal")
      bInForceLinearGamma == bRemovePostProcessing
      cc == s.CaptureComponent2D
  IN [s EXCEPT
        \* CaptureRenderTarget->InitCustomFormat(SizeX, SizeY, PF_B8G8R8A8, ..)
        !.CaptureRenderTarget =
           [NotNull |-> TRUE, Initialized |-> TRUE,
            SizeX |-> s.SizeX, SizeY |-> s.SizeY,
            Format |-> "PF_B8G8R8A8",
            bForceLinearGamma |-> bInForceLinearGamma,
            TargetGamma |-> s.CaptureRenderTarget.TargetGamma],
        !.CaptureComponent2D =
           [cc EXCEPT
              !.TextureTarget = TRUE,
              !.CaptureSource =
                 IF s.PostProcessEffect # "None"
                   THEN "SCS_FinalColorLDR" ELSE cc.CaptureSource,
              !.ShowFlags =
                 IF bRemovePostProcessing
                   THEN RemoveShowFlags(cc.ShowFlags) ELSE cc.ShowFlags,
              !.Blendables =
                 IF s.PostProcessEffect = "Depth"
                   THEN Append(cc.Blendables,
                          [Object |-> "PostProcessDepth", Weight |-> 1])
                 ELSE IF s.PostProcessEffect = "SemanticSegmentation"
                   THEN Append(cc.Blendables,
                          [Object |-> "PostProcessSemanticSegmentation",
                           Weight |-> 1])
                 ELSE cc.Blendables,
              \* Deactivate() before the set-up, Activate() after it
              !.Active = TRUE]]

\* ReadPixels that returns true whenever the render target resource exists,
\* dropping the value RTResource->ReadPixels returns.
ReadPixels_IgnoresFailure(s, backend) ==
  IF backend = "missing"
    THEN [ok |-> FALSE, BitMapNum |-> 0]
    ELSE [ok |-> TRUE,
          BitMapNum |-> IF backend = "ok"
                          THEN s.CaptureRenderTarget.SizeX * s.CaptureRenderTarget.SizeY
                          ELSE 0]

\* ASceneCaptureCamera::ReadPixels: the value returned and the number of
\* FColor records left in BitMap.  A successful read-back returns every pixel
\* of the render target.
ReadPixels(s, backend) ==
  IF backend = "missing"
    THEN [ok |-> FALSE, BitMapNum |-> 0]
    ELSE IF backend = "ok"
      THEN [ok |-> TRUE,
            BitMapNum |-> s.CaptureRenderTarget.SizeX * s.CaptureRenderTarget.SizeY]
      ELSE [ok |-> FALSE, BitMapNum |-> 0]

\* FSensorDataView DataView(GetId(), header view, BitMap view)
SensorDataView(header, bitMapNum) ==
  [sent |-> TRUE, Header |-> header, BitMapNum |-> bitMapNum]

\* Tick that calls WriteSensorData outside the if (ReadPixels(BitMap)).
Tick_WritesUnconditionally(s, backend) ==
  LET ImageHeader == <<s.SizeX, s.SizeY, ToUInt(s.PostProcessEffect),
                       s.CaptureComponent2D.FOVAngle>>
      read == ReadPixels(s, backend)
  IN [cam |-> s,
      readPixelsCalls |-> 1,
      readOk |-> read.ok,
      writes |-> <<SensorDataView(ImageHeader, read.BitMapNum)>>]

\* Tick that deactivates the capture component when the read-back fails.
Tick_DeactivatesOnFailure(s, backend) ==
  LET ImageHeader == <<s.SizeX, s.SizeY, ToUInt(s.PostProcessEffect),
                       s.CaptureComponent2D.FOVAngle>>
      read == ReadPixels(s, backend)
  IN [cam |-> IF read.ok THEN s
                         ELSE [s EXCEPT !.CaptureComponent2D.Active = FALSE],
      readPixelsCalls |-> 1,
      readOk |-> read.ok,
      writes |-> IF read.ok
                   THEN <<SensorDataView(ImageHeader, read.BitMapNum)>>
                   ELSE <<>>]

\* Tick that reports the angle the frustum was last drawn with instead of the
\* angle of the capture component.
Tick_HeaderFromFrustum(s, backend) ==
  LET ImageHeader == <<s.SizeX, s.SizeY, ToUInt(s.PostProcessEffect),
                       s.DrawFrustum.FrustumAngle>>
      read == ReadPixels(s, backend)
  IN [cam |-> s,
      readPixelsCalls |-> 1,
      readOk |-> read.ok,
      writes |-> IF read.ok
                   THEN <<SensorDataView(ImageHeader, read.BitMapNum)>>
                   ELSE <<>>]

\* ASceneCaptureCamera::Tick: the members after the call, the number of
\* ReadPixels calls made, whether the read-back succeeded, and the data views
\* handed to WriteSensorData, in order.
Tick(s, backend) ==
  LET \* struct { Width; Height; Type; FOV; } ImageHeader
      ImageHeader == <<s.SizeX, s.SizeY, ToUInt(s.PostProcessEffect),
                       s.CaptureComponent2D.FOVAngle>>
      read == ReadPixels(s, backend)
  IN [cam |-> s,
      readPixelsCalls |-> 1,
      readOk |-> read.ok,
      writes |-> IF read.ok
                   THEN <<SensorDataView(ImageHeader, read.BitMapNum)>>
                   ELSE <<>>]

\* ------------------------------------------------------------------ actions
Alive == lifecycle \in {"created", "playing"}

\* The value of `change` after a call that sets the variant or the field of
\* view: the sequence goes on when BeginPlay came right before.
AfterChange ==
  IF change.stage = 1 THEN [change EXCEPT !.stage = 2] ELSE NoChange

\* AActor life cycle: PostActorCreated runs once, when the actor is spawned,
\* before any other call modelled here.
PostActorCreatedCall ==
  /\ lifecycle = "constructed"
  /\ cam' = PostActorCreated(cam)
  /\ lifecycle' = "created"
  /\ UNCHANGED <<ticks, readBacks, okReadBacks, publishes, result, written,
                 scenario, change>>

\* AActor life cycle: BeginPlay runs once, before the first Tick.
BeginPlayCall ==
  /\ lifecycle = "created"
  /\ cam' = BeginPlay(cam)
  /\ lifecycle' = "playing"
  /\ change' = [stage |-> 1,
                FOVAngle |-> cam.CaptureComponent2D.FOVAngle,
                PostProcessEffect |-> cam.PostProcessEffect]
  /\ result' = Void
  /\ written' = NoData
  /\ scenario' = IF scenario.stage = 1
                   THEN [scenario EXCEPT !.stage = 2] ELSE NoScenario
  /\ UNCHANGED <<ticks, readBacks, okReadBacks, publishes>>

\* One Tick of the actor, with the backend behaving as `backend`
TickCall(backend) ==
  /\ lifecycle = "playing"
  /\ ticks < MaxTicks
  /\ LET t == Tick(cam, backend)
     IN /\ cam' = t.cam
        /\ ticks' = ticks + 1
        /\ readBacks' = readBacks + t.readPixelsCalls
        /\ okReadBacks' = IF t.readOk THEN okReadBacks + 1 ELSE okReadBacks
        /\ publishes' = publishes + Len(t.writes)
        /\ written' = IF t.writes = <<>> THEN NoData ELSE t.writes[Len(t.writes)]
        /\ result' = IF t.writes = <<>> THEN Result("Skipped", 0)
                                        ELSE Result("Published", 0)
        /\ scenario' = IF scenario.stage = 2 /\ t.writes # <<>>
                         THEN [scenario EXCEPT !.stage = 3] ELSE NoScenario
        /\ change' = IF change.stage = 2 /\ t.writes # <<>>
                       THEN [change EXCEPT !.stage = 3] ELSE NoChange
  /\ UNCHANGED lifecycle

GetFOVAngleCall ==
  /\ Alive
  /\ IF CheckCaptureComponent2D(cam)
       THEN /\ result' = Result("returned", GetFOVAngle(cam))
            /\ lifecycle' = lifecycle
       ELSE /\ result' = CheckFailed
            /\ lifecycle' = "aborted"
  /\ written' = NoData
  /\ scenario' = NoScenario
  /\ change' = NoChange
  /\ UNCHANGED <<cam, ticks, readBacks, okReadBacks, publishes>>

SetImageSizeCall(otherSizeX, otherSizeY) ==
  /\ Alive
  /\ cam' = SetImageSize(cam, otherSizeX, otherSizeY)
  /\ result' = Void
  /\ written' = NoData
  /\ scenario' = NoScenario
  /\ change' = NoChange
  /\ UNCHANGED <<lifecycle, ticks, readBacks, okReadBacks, publishes>>

SetPostProcessEffectCall(otherPostProcessEffect) ==
  /\ Alive
  /\ cam' = SetPostProcessEffect(cam, otherPostProcessEffect)
  /\ result' = Void
  /\ written' = NoData
  /\ scenario' = NoScenario
  /\ change' = AfterChange
  /\ UNCHANGED <<lifecycle, ticks, readBacks, okReadBacks, publishes>>

SetFOVAngleCall(FOVAngle) ==
  /\ Alive
  /\ IF CheckCaptureComponent2D(cam)
       THEN /\ cam' = SetFOVAngle(cam, FOVAngle)
            /\ result' = Void
            /\ lifecycle' = lifecycle
            /\ change' = AfterChange
       ELSE /\ cam' = cam
            /\ result' = CheckFailed
            /\ lifecycle' = "aborted"
            /\ change' = NoChange
  /\ written' = NoData
  /\ scenario' = NoScenario
  /\ UNCHANGED <<ticks, readBacks, okReadBacks, publishes>>

\* ASceneCaptureCamera::Set.  The check() of the SetFOVAngle call it ends
\* with would abort the program after the earlier statements have run.
SetCall(CameraDescription) ==
  /\ Alive
  /\ IF CheckCaptureComponent2D(cam)
       THEN /\ cam' = Set(cam, CameraDescription)
            /\ result' = Void
            /\ lifecycle' = lifecycle
            /\ scenario' = IF lifecycle = "created"
                             THEN [stage |-> 1,
                                   ImageSizeX |-> CameraDescription.ImageSizeX,
                                   ImageSizeY |-> CameraDescription.ImageSizeY]
                             ELSE NoScenario
            /\ change' = AfterChange
       ELSE /\ cam' = SetPostProcessEffect(
                        SetImageSize(SetOverride(cam, CameraDescription),
                                     CameraDescription.ImageSizeX,
                                     CameraDescription.ImageSizeY),
                        CameraDescription.PostProcessEffect)
            /\ result' = CheckFailed
            /\ lifecycle' = "aborted"
            /\ scenario' = NoScenario
            /\ change' = NoChange
  /\ written' = NoData
  /\ UNCHANGED <<ticks, readBacks, okReadBacks, publishes>>

Next ==
  \/ PostActorCreatedCall
  \/ BeginPlayCall
  \/ \E backend \in Backends : TickCall(backend)
  \/ GetFOVAngleCall
  \/ \E x \in Widths, y \in Heights : SetImageSizeCall(x, y)
  \/ \E e \in Effects : SetPostProcessEffectCall(e)
  \/ \E f \in FOVAngles : SetFOVAngleCall(f)
  \/ \E d \in CameraDescriptions : SetCall(d)

Spec == Init /\ [][Next]_vars

\* ------------------------------------------------------------------ views
\* The configuration state of the camera: size, variant, field of view,
\* override flags and values, activation.
Configuration(s) ==
  [SizeX |-> s.SizeX, SizeY |-> s.SizeY,
   PostProcessEffect |-> s.PostProcessEffect,
   FOVAngle |-> s.CaptureComponent2D.FOVAngle,
   OverrideFlags |-> OverrideFlags(s.CaptureComponent2D.PostProcessSettings),
   ExposureValues |-> ExposureValues(s.CaptureComponent2D.PostProcessSettings),
   Active |-> s.CaptureComponent2D.Active]

\* The frame a Tick publishes from members s when its read-back succeeds:
\* the header taken from the members, the pixels of the whole render target.
FrameOf(s) ==
  [sent |-> TRUE,
   Header |-> <<s.SizeX, s.SizeY, ToUInt(s.PostProcessEffect),
                s.CaptureComponent2D.FOVAngle>>,
   BitMapNum |-> s.CaptureRenderTarget.SizeX * s.CaptureRenderTarget.SizeY]

FailingBackends == {"missing", "failed"}

\* ----------------------------------------------------------------- claims

\* C1: on a tick whose read-back fails (render target resource missing, or the
\* pixel read returns failure) the outcome is Skipped and WriteSensorData is
\* not called during that tick.
C1_FailedReadBackIsSkipped ==
  [][ \A backend \in FailingBackends :
        TickCall(backend) =>
          /\ result'.outcome = "Skipped"
          /\ publishes' = publishes
          /\ written' = NoData ]_vars

\* A tick has just been skipped because its read-back failed.
C1_Witness ==
  /\ result.outcome = "Skipped"
  /\ readBacks > okReadBacks
  /\ publishes = okReadBacks

\* C2: every tick issues exactly one read-back and at most one publish, it
\* publishes exactly once if and only if its read-back succeeded, nothing
\* else reads back or publishes, and so the number of publishes always equals
\* the number of successful read-backs.
C2_OnePublishPerSuccessfulReadBack ==
  /\ [](publishes = okReadBacks /\ readBacks = ticks)
  /\ [][ /\ ticks' = ticks + 1 =>
              /\ readBacks' = readBacks + 1
              /\ publishes' \in {publishes, publishes + 1}
              /\ (publishes' = publishes + 1) <=> (okReadBacks' = okReadBacks + 1)
         /\ ticks' = ticks =>
              UNCHANGED <<readBacks, okReadBacks, publishes>> ]_vars

\* Two ticks have run, one read-back failed and one succeeded.
C2_Witness ==
  /\ ticks = 2
  /\ okReadBacks = 1
  /\ publishes = 1

\* C3: a tick whose read-back fails changes no configuration state and leaves
\* the session running, and when the tick right after it reads back
\* successfully it publishes the frame of the current members and render
\* target, as a tick not preceded by a failure does.
C3_FailedTickLeavesPipelineUsable ==
  [][ /\ (ticks' = ticks + 1 /\ okReadBacks' = okReadBacks) =>
           /\ cam' = cam
           /\ lifecycle' = lifecycle
      /\ (result.outcome = "Skipped" /\ ticks' = ticks + 1
            /\ okReadBacks' = okReadBacks + 1) =>
           /\ result'.outcome = "Published"
           /\ written' = FrameOf(cam)
           /\ Configuration(cam') = Configuration(cam) ]_vars

\* The first tick failed and the second one published a frame.
C3_Witness ==
  /\ ticks = 2
  /\ readBacks = 2
  /\ okReadBacks = 1
  /\ result.outcome = "Published"
  /\ written.sent

\* C4: after Set(d) with positive ImageSizeX and ImageSizeY, BeginPlay and one
\* tick with a successful read-back, in this order, the published header
\* starts with d.ImageSizeX, d.ImageSizeY.
C4_HeaderCarriesConfiguredSize ==
  (scenario.stage = 3 /\ scenario.ImageSizeX > 0 /\ scenario.ImageSizeY > 0) =>
     /\ written.sent
     /\ written.Header[1] = scenario.ImageSizeX
     /\ written.Header[2] = scenario.ImageSizeY

\* Set with positive sizes, BeginPlay and a publishing tick have just run.
C4_Witness ==
  /\ scenario.stage = 3
  /\ scenario.ImageSizeX > 0
  /\ scenario.ImageSizeY > 0
  /\ scenario.ImageSizeX # scenario.ImageSizeY
  /\ written.sent

\* C5: every published frame holds exactly width x height pixel records, for
\* the width and height of its own header.
C5_PayloadMatchesHeader ==
  written.sent => written.BitMapNum = written.Header[1] * written.Header[2]

\* The override flags and the exposure values of the capture component.
Flags(s) == OverrideFlags(s.CaptureComponent2D.PostProcessSettings)
Exposure(s) == ExposureValues(s.CaptureComponent2D.PostProcessSettings)

\* The descriptions that select SceneFinal and carry no override.
SceneFinalWithoutOverride ==
  { d \in CameraDescriptions :
      ~d.bOverrideCameraPostProcessParameters
        /\ d.PostProcessEffect = "SceneFinal" }

\* C6: SetPostProcessEffect with a variant other than SceneFinal clears all
\* four override flags; a later SetPostProcessEffect(SceneFinal), or a Set
\* with SceneFinal that carries no override, leaves cleared flags cleared.
C6_ClearedOverrideStaysCleared ==
  [][ /\ \A e \in Effects :
           SetPostProcessEffectCall(e) =>
             /\ e # "SceneFinal" => Flags(cam') = NoOverrideFlags
             /\ (e = "SceneFinal" /\ Flags(cam) = NoOverrideFlags) =>
                  Flags(cam') = NoOverrideFlags
      /\ Flags(cam) = NoOverrideFlags =>
           \A d \in SceneFinalWithoutOverride :
              SetCall(d) => Flags(cam') = NoOverrideFlags ]_vars

\* The variant is SceneFinal again, the override values that were once
\* written are still stored, and no override flag is set.
C6_Witness ==
  /\ cam.PostProcessEffect = "SceneFinal"
  /\ Exposure(cam) # DefaultExposure
  /\ Flags(cam) = NoOverrideFlags

\* A description Set should refuse: a size that is not positive, or a field
\* of view outside the open range (0, 180).
InvalidDescription(d) ==
  \/ d.ImageSizeX <= 0
  \/ d.ImageSizeY <= 0
  \/ ~(0 < d.FOVAngle /\ d.FOVAngle < 180)

\* C7: Set with an invalid description is rejected and leaves size, variant,
\* field of view, override flags and override values as they were.
C7_InvalidConfigRejected ==
  [][ \A d \in CameraDescriptions :
        (InvalidDescription(d) /\ SetCall(d)) =>
           Configuration(cam') = Configuration(cam) ]_vars

C9_NoSuppressionForNone ==
  [][ BeginPlayCall =>
        LET e == cam.PostProcessEffect
            off == cam'.CaptureComponent2D.ShowFlags
        IN /\ e \in {"Depth", "SemanticSegmentation"} => off = RemovedShowFlags
           /\ e \in {"SceneFinal", "None"} => off = {} ]_vars

\* C9 as amended: the show flags BeginPlay removes are the same non-empty
\* list for Depth, SemanticSegmentation and None, and none are removed for
\* SceneFinal.
C9_SuppressionByVariant ==
  [][ BeginPlayCall =>
        LET e == cam.PostProcessEffect
            off == cam'.CaptureComponent2D.ShowFlags
        IN /\ e \in {"Depth", "SemanticSegmentation", "None"} =>
                (off = RemovedShowFlags /\ off # {})
           /\ e = "SceneFinal" => off = {} ]_vars

\* BeginPlay has run with the variant None: show flags are removed, nothing
\* is blended and the capture source was left alone.
C9_Witness ==
  /\ lifecycle = "playing"
  /\ cam.CaptureComponent2D.ShowFlags # {}
  /\ cam.CaptureComponent2D.Blendables = <<>>
  /\ cam.CaptureComponent2D.CaptureSource = "SCS_SceneColorHDR"

\* C10: after Set(d), size, variant, field of view and the override flags
\* are those d alone determines; in particular no override flag is set after
\* a Set whose description carries no override.
C10_SetIsFullReconfiguration ==
  [][ \A d \in CameraDescriptions :
        SetCall(d) =>
          /\ cam'.SizeX = d.ImageSizeX
          /\ cam'.SizeY = d.ImageSizeY
          /\ cam'.PostProcessEffect = d.PostProcessEffect
          /\ cam'.CaptureComponent2D.FOVAngle = d.FOVAngle
          /\ Flags(cam') =
               IF d.bOverrideCameraPostProcessParameters
                    /\ d.PostProcessEffect = "SceneFinal"
                 THEN AllOverrideFlags ELSE NoOverrideFlags ]_vars

\* ---------------------------------------------------------------------- C11
\* `change` follows BeginPlay (stage 1, with the field of view and the variant
\* of that moment), then a call that sets the field of view or the variant
\* (stage 2), then a Tick that publishes a frame (stage 3).

\* C11: a change of the field of view or of the variant shows in the very
\* next published frame, after BeginPlay as before it: the header of every
\* frame carries the field of view and the code of the variant that are
\* current at its Tick, whatever they were at BeginPlay.
C11_ChangeShowsInNextFrame ==
  written.sent =>
    /\ written.Header[3] = ToUInt(cam.PostProcessEffect)
    /\ written.Header[4] = cam.CaptureComponent2D.FOVAngle

\* A frame published after both the field of view and the variant were moved
\* away from their values at BeginPlay.
C11_Witness ==
  /\ change.stage = 3
  /\ written.sent
  /\ written.Header[4] # change.FOVAngle
  /\ written.Header[3] # ToUInt(change.PostProcessEffect)

\* ---------------------------------------------------------------------- C12
\* The dimensions the render target was given.
TargetSize(s) == <<s.CaptureRenderTarget.SizeX, s.CaptureRenderTarget.SizeY>>

\* C12: SetImageSize stores the width and the height and changes nothing
\* else: the render target keeps the dimensions, the gamma (whatever
\* SetTargetGamma has made it) and the linear-gamma setting it has, and the
\* variant, the field of view and the override flags stay as they are.  Only
\* BeginPlay gives the render target its dimensions.
C12_SetImageSizeOnlyStores ==
  [][/\ \A x \in Widths, y \in Heights :
          SetImageSizeCall(x, y) =>
            /\ cam'.SizeX = x
            /\ cam'.SizeY = y
            /\ cam'.CaptureRenderTarget = cam.CaptureRenderTarget
            /\ cam'.PostProcessEffect = cam.PostProcessEffect
            /\ cam'.CaptureComponent2D = cam.CaptureComponent2D
            /\ cam'.DrawFrustum = cam.DrawFrustum
     /\ \A x \in Widths, y \in Heights, g \in Gammas :
          LET s == SetTargetGamma(cam, g)
          IN CheckCaptureRenderTarget(cam) =>
               SetImageSize(s, x, y).CaptureRenderTarget = s.CaptureRenderTarget
     /\ (lifecycle' = lifecycle) => TargetSize(cam') = TargetSize(cam)]_vars

\* A started camera with a linear render target and overrides in force whose stored
\* size is no longer the size of its render target.
C12_Witness ==
  /\ lifecycle = "playing"
  /\ result = Void
  /\ <<cam.SizeX, cam.SizeY>> # TargetSize(cam)
  /\ cam.SizeX \in Widths
  /\ cam.CaptureRenderTarget.bForceLinearGamma
  /\ Flags(cam) = AllOverrideFlags

\* ---------------------------------------------------------------------- C13
\* C13: Set is idempotent: from any state the camera can be in, calling Set
\* twice in a row with one description leaves every member, and with the
\* members everything BeginPlay and Tick derive from them, exactly as calling
\* it once does.
C13_SetTwiceIsSetOnce ==
  (Alive /\ CheckCaptureComponent2D(cam)) =>
    \A d \in CameraDescriptions :
      LET once == Set(cam, d)
          twice == Set(once, d)
      IN twice = once

\* The camera right after Set with a description that overrides the exposure
\* of a SceneFinal camera: a state a second Set with it would leave alone.
C13_Witness ==
  /\ result = Void
  /\ scenario.stage = 1
  /\ Flags(cam) = AllOverrideFlags
  /\ \E d \in CameraDescriptions :
        /\ d.bOverrideCameraPostProcessParameters
        /\ d.PostProcessEffect = "SceneFinal"
        /\ cam = Set(cam, d)

\* ---------------------------------------------------------------------- C14
\* C14: the four bOverride_AutoExposure* flags always agree: in every state
\* the setters and Set can produce they are all set or all cleared.
C14_OverrideFlagsAgree ==
  Flags(cam) \in {NoOverrideFlags, AllOverrideFlags}

\* The flags as a Set that overrides the exposure leaves them: all set.
C14_Witness ==
  /\ result = Void
  /\ Flags(cam) = AllOverrideFlags
  /\ Exposure(cam) \in OverrideParameters

\* ---------------------------------------------------------------------- C15
\* C15: BeginPlay removes the show flags and forces linear gamma on the
\* render target together, and exactly when the variant is not SceneFinal:
\* Depth, SemanticSegmentation and None get both, SceneFinal gets neither.
C15_SuppressionAndLinearGammaTogether ==
  [][ BeginPlayCall =>
        LET notFinal == (cam.PostProcessEffect # "SceneFinal")
            linear == cam'.CaptureRenderTarget.bForceLinearGamma
            off == cam'.CaptureComponent2D.ShowFlags
        IN /\ linear <=> notFinal
           /\ (off = RemovedShowFlags) <=> notFinal
           /\ (off = {}) <=> ~notFinal ]_vars

\* BeginPlay has just run with a variant other than SceneFinal: the show
\* flags are removed and the render target is linear.
C15_Witness ==
  /\ lifecycle = "playing"
  /\ change.stage = 1
  /\ change.PostProcessEffect # "SceneFinal"
  /\ cam.CaptureRenderTarget.bForceLinearGamma
  /\ cam.CaptureComponent2D.ShowFlags = RemovedShowFlags

\* ---------------------------------------------------------------------- C16
\* C16: BeginPlay blends at most one material, with weight 1: the depth
\* material exactly for Depth, the semantic segmentation material exactly
\* for SemanticSegmentation, and nothing for SceneFinal and None.
C16_OneBlendableByVariant ==
  [][ BeginPlayCall =>
        LET e == cam.PostProcessEffect
            blended == cam'.CaptureComponent2D.Blendables
        IN /\ Len(blended) <= 1
           /\ \A i \in DOMAIN blended : blended[i].Weight = 1
           /\ (e = "Depth") <=>
                (\E i \in DOMAIN blended :
                    blended[i].Object = "PostProcessDepth")
           /\ (e = "SemanticSegmentation") <=>
                (\E i \in DOMAIN blended :
                    blended[i].Object = "PostProcessSemanticSegmentation")
           /\ (e \in {"SceneFinal", "None"}) <=> (blended = <<>>) ]_vars

\* BeginPlay has just run with SemanticSegmentation and blended its material.
C16_Witness ==
  /\ lifecycle = "playing"
  /\ change.stage = 1
  /\ change.PostProcessEffect = "SemanticSegmentation"
  /\ cam.CaptureComponent2D.Blendables =
       <<[Object |-> "PostProcessSemanticSegmentation", Weight |-> 1]>>

\* ---------------------------------------------------------------------- C17
\* C17: once the actor is created, the frustum follows the configuration:
\* its angle is the current field of view, and its end distance is the
\* max-view-distance override when that exceeds the start distance and 1000
\* otherwise.
C17_FrustumFollowsFOV ==
  Alive =>
    /\ cam.DrawFrustum.FrustumAngle = cam.CaptureComponent2D.FOVAngle
    /\ cam.DrawFrustum.FrustumEndDist =
         IF cam.CaptureComponent2D.MaxViewDistanceOverride
              > cam.DrawFrustum.FrustumStartDist
           THEN cam.CaptureComponent2D.MaxViewDistanceOverride
           ELSE DefaultFrustumEndDist

\* ---------------------------------------------------------------------- C18
\* What the capture component and the render target are set up to render.
RenderDirectives(s) ==
  [ShowFlags |-> s.CaptureComponent2D.ShowFlags,
   Blendables |-> s.CaptureComponent2D.Blendables,
   CaptureSource |-> s.CaptureComponent2D.CaptureSource,
   bForceLinearGamma |-> s.CaptureRenderTarget.bForceLinearGamma]

\* The set-up BeginPlay gives a freshly constructed camera of variant e.
DirectivesOf(e) ==
  RenderDirectives(BeginPlay([Constructed EXCEPT !.PostProcessEffect = e]))

\* C18: the variant code in the header of every published frame names the
\* variant whose set-up is in force on the capture component and the render
\* target.
C18_HeaderNamesVariantInForce ==
  written.sent =>
    \E e \in Effects :
      /\ ToUInt(e) = written.Header[3]
      /\ RenderDirectives(cam) = DirectivesOf(e)

\* ---------------------------------------------------------------------- C19
\* C19: the camera starts with no override flag, and after every Set and
\* every SetPostProcessEffect an override flag is set only if the variant is
\* SceneFinal; a Set that carries an override and a variant other than
\* SceneFinal ends with no flag set.
C19_OverrideOnlyForSceneFinal ==
  Flags(cam) # NoOverrideFlags => cam.PostProcessEffect = "SceneFinal"

\* The camera after a Set that carried exposure values and a variant other
\* than SceneFinal: the values were copied, the flags are cleared.
C19_Witness ==
  /\ result = Void
  /\ scenario.stage = 1
  /\ cam.PostProcessEffect # "SceneFinal"
  /\ Exposure(cam) \in OverrideParameters
  /\ Flags(cam) = NoOverrideFlags

=============================================================================
